---- MODULE Spec2Model ----
(***************************************************************************)
(* Theme resolver of the portfolio page (src/src/App.tsx, function App).   *)
(*                                                                         *)
(* The component keeps two useState hooks (isDark, hasUserPref) and three  *)
(* passive effects: the initialization effect (deps []), the apply effect  *)
(* (deps [isDark, hasUserPref]) and the OS-change listener effect (deps    *)
(* [hasUserPref]).  The model follows the React 18 runtime the component   *)
(* runs on:                                                                *)
(*   - a setState call appends an update to the hook's queue; a render     *)
(*     folds the queue into the state, skipping updates whose lane is not  *)
(*     rendered and keeping them (and all later ones) for the next render; *)
(*   - updates made in a discrete browser event (the click that calls      *)
(*     toggleTheme, the "change" event of the media query list) have the   *)
(*     sync lane: they are rendered and committed, and their effects are   *)
(*     flushed, before the event's task ends;                              *)
(*   - updates made inside a passive effect of a default-lane render (the  *)
(*     initialization effect) have the default lane and are rendered in a  *)
(*     later task, and the effects of a default-lane commit are flushed in *)
(*     a later task still, or right before the next render;                *)
(*   - under StrictMode in a development build the mount effects are run,  *)
(*     cleaned up and run again inside the first flush.                    *)
(***************************************************************************)
EXTENDS Naturals, Sequences, FiniteSets, TLC

VARIABLES
  strict,       \* development build with StrictMode (src/best_practices.md:18)
  os,           \* matchMedia('(prefers-color-scheme: dark)').matches
  cookie,       \* raw value of the theme field of document.cookie, or Null
  ls,           \* localStorage.getItem('theme'), or Null
  docDark,      \* 'dark' class on document.documentElement
  isDark,       \* committed state of useState(false), line 425
  hasUserPref,  \* committed state of useState(false), line 427
  darkBase,     \* base state of the isDark hook (state before the first skipped update)
  darkQueue,    \* updates of the isDark hook not yet folded into the base state
  prefBase,     \* base state of the hasUserPref hook
  prefQueue,    \* updates of the hasUserPref hook not yet folded into the base state
  pending,      \* passive effects of the last commit that have not run yet
  listeners,    \* 'change' handlers registered on the media query list, each
                \* given by the hasUserPref value its closure captured
  initLog,      \* history: the runs of the initialization effect in this page load
  toggled,      \* history: toggleTheme was called in this page load
  togRun,       \* history: number of toggleTheme calls in a row just made (capped at 2)
  togFrom,      \* history: committed state before the first call of that run
  togMid,       \* history: committed state between the last two calls of that run
  carry,        \* history: the explicit state the previous page load ended in
  clean,        \* history: no click and no OS change since the page was loaded
  phase,        \* "mounted", "unmounted" (torn down) or "crashed" (an effect threw)
  lsThrows,     \* the browser refuses access to localStorage (SecurityError)
  didApply,     \* history: the last step ran the apply effect
  installs,     \* history: addEventListener calls of the listener effect in this page load
  batch         \* history: the toggleTheme calls of the event just handled

vars == <<strict, os, cookie, ls, docDark, isDark, hasUserPref, darkBase, darkQueue,
          prefBase, prefQueue, pending, listeners, initLog, toggled, togRun, togFrom,
          togMid, carry, clean, phase, lsThrows, didApply, installs, batch>>

\* Longest hook queue a click or an OS change may still append to.
MaxQueue == 3

\* Most toggleTheme calls made in one event before React renders.
MaxBatch == 3

----------------------------------------------------------------------------
\* Stored values

Null == "null"

\* Values a store may hold when the page loads: the three theme preferences,
\* nothing, or a foreign string ("a b", percent-encoded in the cookie).
StoreVals == {Null, "light", "dark", "system", "a b"}

encodeURIComponent(v) == IF v = "a b" THEN "a%20b" ELSE v

decodeURIComponent(raw) == IF raw = "a%20b" THEN "a b" ELSE raw

CookieVals == {IF v = Null THEN Null ELSE encodeURIComponent(v) : v \in StoreVals}

\* A raw cookie value decodeURIComponent throws URIError on: a lone "%".
Undecodable(raw) == raw = "%"

FaultCookieVals == CookieVals \cup {"%"}

getCookie(jar) == IF jar = Null THEN Null ELSE decodeURIComponent(jar)

setCookie(value) == encodeURIComponent(value)

\* JavaScript a || b on string-or-null operands
OrElse(a, b) == IF a = Null \/ a = "" THEN b ELSE a

----------------------------------------------------------------------------
\* Hook update queues

Update(lane, f, v) == [lane |-> lane, f |-> f, v |-> v]

\* Variant in which the toggle's updater sets dark instead of flipping.
ApplyUpdateSetsDark(u, s) == IF u.f = "flip" THEN TRUE ELSE u.v

\* A set-state value (setIsDark(v)) or the updater of line 464 (prev => !prev).
ApplyUpdate(u, s) == IF u.f = "flip" THEN ~s ELSE u.v

SyncLanes == {"sync"}
AllLanes == {"sync", "default"}

\* An update rendered after a skipped one is kept with no lane: every later
\* render includes it.
Rendered(u, lanes) == u.lane = "none" \/ u.lane \in lanes

RECURSIVE Reduce(_, _, _, _, _)
Reduce(state, base, kept, q, lanes) ==
  IF q = <<>>
  THEN [cur |-> state, base |-> IF kept = <<>> THEN state ELSE base, q |-> kept]
  ELSE LET u == Head(q) IN
       IF Rendered(u, lanes)
       THEN Reduce(ApplyUpdate(u, state), base,
                   IF kept = <<>> THEN kept ELSE Append(kept, [u EXCEPT !.lane = "none"]),
                   Tail(q), lanes)
       ELSE Reduce(state, IF kept = <<>> THEN state ELSE base,
                   Append(kept, u), Tail(q), lanes)

HasDefault(q) == \E i \in 1..Len(q) : q[i].lane = "default"

----------------------------------------------------------------------------
\* The effects.  w is the part of the world an effect may change:
\* [cookie, ls, docDark, listeners, darkQueue, prefQueue, initLog, installs],
\* with applied (the apply effect ran) and err (an effect threw) for the step.

World == [cookie |-> cookie, ls |-> ls, docDark |-> docDark, listeners |-> listeners,
          darkQueue |-> darkQueue, prefQueue |-> prefQueue, initLog |-> initLog,
          installs |-> installs, applied |-> FALSE, err |-> FALSE]

\* An exception leaves the effect; the effects after it do not run.
Throw(w) == [w EXCEPT !.err = TRUE]

\* Body of the initialization effect, lines 434-442, for the value read at
\* line 431.  o is mql.matches.  initLog records what the run read and set.
InitRun(w, o, cookieTheme) ==
  LET explicit == cookieTheme = "dark" \/ cookieTheme = "light"
      d == IF explicit THEN cookieTheme = "dark" ELSE o
      jar == IF explicit THEN w.cookie ELSE setCookie("system")
  IN [w EXCEPT !.darkQueue = Append(@, Update("default", "set", d)),
               !.prefQueue = Append(@, Update("default", "set", explicit)),
               !.cookie = jar,
               !.initLog = Append(@, [c |-> w.cookie, l |-> w.ls, o |-> o,
                                      d |-> d, p |-> explicit, jar |-> jar])]

\* Variants of the initialization effect with one slip each:
\* reads the cookie only
InitEffectNoFallback(w, o) == InitRun(w, o, getCookie(w.cookie))

\* reads localStorage before the cookie
InitEffectLocalFirst(w, o) == InitRun(w, o, OrElse(w.ls, getCookie(w.cookie)))

\* starts light instead of reading mql.matches
InitEffectIgnoresOS(w, o) == InitRun(w, FALSE, OrElse(getCookie(w.cookie), w.ls))

\* Initialization effect, lines 429-443: cookie > localStorage > system.
\* decodeURIComponent throws on an undecodable cookie; localStorage is read
\* only when the cookie gives nothing, and throws when access is refused.
InitEffect(w, o) ==
  IF w.err THEN w
  ELSE IF Undecodable(w.cookie) THEN Throw(w)
  ELSE IF OrElse(getCookie(w.cookie), Null) = Null /\ lsThrows THEN Throw(w)
  ELSE InitRun(w, o, OrElse(getCookie(w.cookie), w.ls))

\* Variant of the apply effect that leaves localStorage alone in adaptive mode.
ApplyEffectKeepsLocal(w, d, p) ==
  LET val == IF d THEN "dark" ELSE "light" IN
  IF p
  THEN [w EXCEPT !.docDark = d, !.ls = val, !.cookie = setCookie(val)]
  ELSE [w EXCEPT !.docDark = d, !.cookie = setCookie("system")]

\* Variant of the apply effect that toggles the class without the force argument.
ApplyEffectFlipsClass(w, d, p) ==
  LET val == IF d THEN "dark" ELSE "light" IN
  IF p
  THEN [w EXCEPT !.docDark = ~w.docDark, !.ls = val, !.cookie = setCookie(val)]
  ELSE [w EXCEPT !.docDark = ~w.docDark, !.cookie = setCookie("system"), !.ls = Null]

\* Variant of the apply effect that leaves the class list alone.
ApplyEffectSkipsClass(w, d, p) ==
  LET val == IF d THEN "dark" ELSE "light"
      w0 == [w EXCEPT !.applied = TRUE]
  IN IF w.err THEN w
     ELSE IF p
     THEN IF lsThrows THEN Throw(w0)
          ELSE [w0 EXCEPT !.ls = val, !.cookie = setCookie(val)]
     ELSE IF lsThrows THEN Throw([w0 EXCEPT !.cookie = setCookie("system")])
          ELSE [w0 EXCEPT !.cookie = setCookie("system"), !.ls = Null]

\* Apply effect, lines 445-460, with the isDark and hasUserPref of its render.
ApplyEffect(w, d, p) ==
  LET val == IF d THEN "dark" ELSE "light"
      w0 == [w EXCEPT !.docDark = d, !.applied = TRUE]
  IN IF w.err THEN w
     ELSE IF p
     THEN IF lsThrows THEN Throw(w0)
          ELSE [w0 EXCEPT !.ls = val, !.cookie = setCookie(val)]
     ELSE IF lsThrows THEN Throw([w0 EXCEPT !.cookie = setCookie("system")])
          ELSE [w0 EXCEPT !.cookie = setCookie("system"), !.ls = Null]

\* Variant of the listener effect whose handler keeps the gate of the first render.
ListenEffectStale(w, p) ==
  IF w.err THEN w ELSE [w EXCEPT !.listeners = Append(@, FALSE), !.installs = @ + 1]

\* Listener effect, lines 468-473: handle closes over hasUserPref.
ListenEffect(w, p) ==
  IF w.err THEN w ELSE [w EXCEPT !.listeners = Append(@, p), !.installs = @ + 1]

\* Variant of the listener effect's cleanup that removes nothing.
ListenCleanupKeeps(w) == w

\* Its cleanup, line 474: removes the handler the effect registered.
ListenCleanup(w) == [w EXCEPT !.listeners = IF @ = <<>> THEN @ ELSE Tail(@)]

MountEffects(w, d, p, o) == ListenEffect(ApplyEffect(InitEffect(w, o), d, p), p)

\* Mount under StrictMode in a development build: the effects run, their
\* cleanups run, and the effects run again with the same render's values.
StrictMount(w, d, p, o) ==
  MountEffects(ListenCleanup(MountEffects(w, d, p, o)), d, p, o)

\* One flush of the passive effects in pend, in source order, for the
\* committed render (d, p).
FlushPassive(w, pend, d, p, o, st) ==
  IF "init" \in pend
  THEN IF st THEN StrictMount(w, d, p, o) ELSE MountEffects(w, d, p, o)
  ELSE LET w1 == IF "listen" \in pend THEN ListenCleanup(w) ELSE w
           w2 == IF "apply" \in pend THEN ApplyEffect(w1, d, p) ELSE w1
       IN IF "listen" \in pend THEN ListenEffect(w2, p) ELSE w2

\* Effects whose dependencies differ between two committed renders.
ChangedDeps(d0, p0, d1, p1) ==
  (IF d0 # d1 \/ p0 # p1 THEN {"apply"} ELSE {}) \cup
  (IF p0 # p1 THEN {"listen"} ELSE {})

\* One render of the given lanes starting from world w (whose queues already
\* hold the new updates): pending effects first, then the fold of both hook
\* queues, the commit, and for a sync render the effects of that commit.
Work(w, lanes, o) ==
  LET w1 == FlushPassive(w, pending, isDark, hasUserPref, o, strict)
      rd == Reduce(darkBase, darkBase, <<>>, w1.darkQueue, lanes)
      rp == Reduce(prefBase, prefBase, <<>>, w1.prefQueue, lanes)
      deps == ChangedDeps(isDark, hasUserPref, rd.cur, rp.cur)
      w2 == [w1 EXCEPT !.darkQueue = rd.q, !.prefQueue = rp.q]
      sync == lanes = SyncLanes
  IN IF w1.err
     THEN [w |-> w1, d |-> isDark, p |-> hasUserPref, db |-> darkBase, pb |-> prefBase,
           pend |-> {}]
     ELSE [w |-> IF sync THEN FlushPassive(w2, deps, rd.cur, rp.cur, o, strict) ELSE w2,
           d |-> rd.cur, p |-> rp.cur, db |-> rd.base, pb |-> rp.base,
           pend |-> IF sync THEN {} ELSE deps]

\* The world after a step.  An exception thrown by an effect is not caught
\* anywhere (there is no try/catch and no error boundary): React unmounts
\* the tree, which runs the cleanup of the listener effect.
CommitStores(w) ==
  /\ cookie' = w.cookie
  /\ ls' = w.ls
  /\ docDark' = w.docDark
  /\ listeners' = IF w.err THEN <<>> ELSE w.listeners
  /\ darkQueue' = w.darkQueue
  /\ prefQueue' = w.prefQueue
  /\ initLog' = w.initLog
  /\ installs' = w.installs
  /\ didApply' = w.applied

CommitWorld(w) ==
  /\ CommitStores(w)
  /\ phase' = IF w.err THEN "crashed" ELSE phase

Commit(r) ==
  /\ CommitWorld(r.w)
  /\ isDark' = r.d
  /\ hasUserPref' = r.p
  /\ darkBase' = r.db
  /\ prefBase' = r.pb
  /\ pending' = r.pend

NoRun == [d |-> FALSE, p |-> FALSE]

NoBatch == [n |-> 0, d |-> FALSE]

ResetRun == /\ togRun' = 0
            /\ togFrom' = NoRun
            /\ togMid' = NoRun
            /\ batch' = NoBatch

----------------------------------------------------------------------------
\* State after the first render of App has been committed.

InitWith(cookies, faults) ==
  /\ strict \in BOOLEAN
  /\ os \in BOOLEAN
  /\ cookie \in cookies
  /\ ls \in StoreVals
  /\ lsThrows \in faults
  /\ phase = "mounted"
  /\ didApply = FALSE
  /\ installs = 0
  /\ batch = NoBatch
  /\ docDark = FALSE
  /\ isDark = FALSE
  /\ hasUserPref = FALSE
  /\ darkBase = FALSE
  /\ darkQueue = <<>>
  /\ prefBase = FALSE
  /\ prefQueue = <<>>
  /\ pending = {"init", "apply", "listen"}
  /\ listeners = <<>>
  /\ initLog = <<>>
  /\ toggled = FALSE
  /\ togRun = 0
  /\ togFrom = NoRun
  /\ togMid = NoRun
  /\ carry = [set |-> FALSE, d |-> FALSE]
  /\ clean = TRUE

\* Well-formed or foreign stored values, storage accessible.
Init == InitWith(CookieVals, {FALSE})

\* Also an undecodable cookie and a browser that refuses localStorage.
InitFault == InitWith(FaultCookieVals, BOOLEAN)

\* The scheduler task that runs the passive effects of a default-lane commit.
FlushPassiveEffects ==
  /\ phase = "mounted"
  /\ pending # {}
  /\ CommitWorld(FlushPassive(World, pending, isDark, hasUserPref, os, strict))
  /\ pending' = {}
  /\ ResetRun
  /\ UNCHANGED <<strict, os, isDark, hasUserPref, darkBase, prefBase, toggled, carry,
                 clean, lsThrows>>

\* The scheduler task that renders the default-lane updates.
RenderDefault ==
  /\ phase = "mounted"
  /\ HasDefault(darkQueue) \/ HasDefault(prefQueue)
  /\ Commit(Work(World, AllLanes, os))
  /\ ResetRun
  /\ UNCHANGED <<strict, os, toggled, carry, clean, lsThrows>>

\* Variant of toggleTheme that forgets setHasUserPref(true).
ToggleUpdatesNoPref(w) ==
  [w EXCEPT !.darkQueue = Append(@, Update("sync", "flip", FALSE))]

\* Variant of toggleTheme that sets the negation of the rendered isDark
\* instead of passing an updater function.
ToggleUpdatesStale(w) ==
  [w EXCEPT !.prefQueue = Append(@, Update("sync", "set", TRUE)),
            !.darkQueue = Append(@, Update("sync", "set", ~isDark))]

\* The two setState calls of toggleTheme, lines 462-465, made in a click.
ToggleUpdates(w) ==
  [w EXCEPT !.prefQueue = Append(@, Update("sync", "set", TRUE)),
            !.darkQueue = Append(@, Update("sync", "flip", FALSE))]

\* A click on the theme button: toggleTheme and the sync render of its updates.
toggleTheme ==
  /\ phase = "mounted"
  /\ Len(darkQueue) < MaxQueue
  /\ Commit(Work(ToggleUpdates(World), SyncLanes, os))
  /\ batch' = [n |-> 1, d |-> isDark]
  /\ toggled' = TRUE
  /\ clean' = FALSE
  /\ togRun' = IF togRun = 0 THEN 1 ELSE 2
  /\ togFrom' = IF togRun = 0 THEN [d |-> isDark, p |-> hasUserPref]
                ELSE IF togRun = 1 THEN togFrom ELSE togMid
  /\ togMid' = IF togRun = 0 THEN NoRun ELSE [d |-> isDark, p |-> hasUserPref]
  /\ UNCHANGED <<strict, os, carry, lsThrows>>

\* toggleTheme called n times by one event handler.
RECURSIVE ToggleTimes(_, _)
ToggleTimes(w, n) == IF n = 0 THEN w ELSE ToggleTimes(ToggleUpdates(w), n - 1)

\* An event whose handling calls toggleTheme several times before React
\* renders: the updates are batched into one sync render.
toggleBatch ==
  /\ phase = "mounted"
  /\ Len(darkQueue) < MaxQueue
  /\ \E n \in 2..MaxBatch :
       /\ Commit(Work(ToggleTimes(World, n), SyncLanes, os))
       /\ batch' = [n |-> n, d |-> isDark]
  /\ toggled' = TRUE
  /\ clean' = FALSE
  /\ togRun' = 0
  /\ togFrom' = NoRun
  /\ togMid' = NoRun
  /\ UNCHANGED <<strict, os, carry, lsThrows>>

\* Variant of the change handler with the gate inverted.
handleInverted(captured, q, m) ==
  IF captured THEN Append(q, Update("sync", "set", m)) ELSE q

\* The change handler, lines 470-472, with the hasUserPref its closure
\* captured, for an event with e.matches = m.
handle(captured, q, m) ==
  IF ~captured THEN Append(q, Update("sync", "set", m)) ELSE q

\* The event is dispatched to every registered handler in turn.
RECURSIVE Dispatch(_, _, _)
Dispatch(hs, q, m) ==
  IF hs = <<>> THEN q ELSE Dispatch(Tail(hs), handle(Head(hs), q, m), m)

\* The OS colour scheme changes; the media query list fires 'change'.
OSChange ==
  /\ Len(darkQueue) < MaxQueue
  /\ os' = ~os
  /\ LET q == Dispatch(listeners, darkQueue, ~os) IN
       IF q = darkQueue
       THEN /\ didApply' = FALSE
            /\ UNCHANGED <<cookie, ls, docDark, listeners, darkQueue, prefQueue, initLog,
                           isDark, hasUserPref, darkBase, prefBase, pending, installs,
                           phase>>
       ELSE Commit(Work([World EXCEPT !.darkQueue = q], SyncLanes, ~os))
  /\ clean' = FALSE
  /\ ResetRun
  /\ UNCHANGED <<strict, toggled, carry, lsThrows>>

\* The view is mounted and has no effect and no state update outstanding.
Quiescent ==
  phase = "mounted" /\ pending = {} /\ darkQueue = <<>> /\ prefQueue = <<>>

\* Full page reload: the document and the component state are created anew;
\* the cookie and localStorage survive.
Reload ==
  /\ docDark' = FALSE
  /\ isDark' = FALSE
  /\ hasUserPref' = FALSE
  /\ darkBase' = FALSE
  /\ darkQueue' = <<>>
  /\ prefBase' = FALSE
  /\ prefQueue' = <<>>
  /\ pending' = {"init", "apply", "listen"}
  /\ listeners' = <<>>
  /\ initLog' = <<>>
  /\ toggled' = FALSE
  /\ LET settled == toggled /\ hasUserPref /\ Quiescent IN
       carry' = [set |-> settled, d |-> settled /\ isDark]
  /\ clean' = TRUE
  /\ phase' = "mounted"
  /\ didApply' = FALSE
  /\ installs' = 0
  /\ ResetRun
  /\ UNCHANGED <<strict, os, cookie, ls, lsThrows>>

\* The view is torn down (root unmount): React first runs the passive effects
\* still pending, then the cleanups of the mounted effects, line 474.
Unmount ==
  /\ phase = "mounted"
  /\ LET w == FlushPassive(World, pending, isDark, hasUserPref, os, strict) IN
       /\ CommitStores([ListenCleanup(w) EXCEPT !.darkQueue = <<>>, !.prefQueue = <<>>])
       /\ phase' = IF w.err THEN "crashed" ELSE "unmounted"
  /\ pending' = {}
  /\ darkBase' = isDark
  /\ prefBase' = hasUserPref
  /\ ResetRun
  /\ UNCHANGED <<strict, os, isDark, hasUserPref, toggled, carry, clean, lsThrows>>

Next ==
  \/ FlushPassiveEffects
  \/ RenderDefault
  \/ toggleTheme
  \/ toggleBatch
  \/ OSChange
  \/ Reload
  \/ Unmount

Spec == Init /\ [][Next]_vars

\* The same page with the storage faults of InitFault.
SpecFault == InitFault /\ [][Next]_vars

----------------------------------------------------------------------------
\* Properties

Explicit(v) == v = "light" \/ v = "dark"

ThemeOf(d) == IF d THEN "dark" ELSE "light"

\* The storage invariant of the data model, as a predicate of the current state.
StorageMatchesPref ==
  /\ hasUserPref <=> (Explicit(getCookie(cookie)) /\ ls = getCookie(cookie))
  /\ ~hasUserPref => (getCookie(cookie) = "system" /\ ls = Null)

\* C1 as stated: at every moment of a page session hasUserPref is true iff the
\* cookie holds light or dark and localStorage holds the same value, and when
\* hasUserPref is false the cookie reads system and localStorage has no theme.
C1_StorageMatchesPrefAlways == StorageMatchesPref

\* C1 amended: the same relation holds whenever no passive effect is pending,
\* that is, once the apply effect has run for the committed state.
C1_StorageMatchesPrefAfterApply == pending = {} => StorageMatchesPref

C1_Witness ==
  /\ pending = {} /\ toggled /\ hasUserPref /\ isDark
  /\ cookie = "dark" /\ ls = "dark"

LastInit == initLog[Len(initLog)]

\* C2: every run of the initialization effect resolves the cookie's value, or
\* localStorage's when the cookie is absent; light or dark is set as the
\* state with hasUserPref true; anything else sets isDark to the OS signal,
\* hasUserPref to false and writes system to the cookie.  A page load nothing
\* disturbs commits the values its last run set.
C2_InitResolution ==
  /\ \A i \in DOMAIN initLog :
       LET r == initLog[i]
           resolved == IF r.c # Null THEN decodeURIComponent(r.c) ELSE r.l
       IN IF Explicit(resolved)
          THEN r.d = (resolved = "dark") /\ r.p
          ELSE r.d = r.o /\ ~r.p /\ r.jar = "system"
  /\ (clean /\ Quiescent) => (isDark = LastInit.d /\ hasUserPref = LastInit.p)

C2_Witness ==
  /\ clean /\ Quiescent
  /\ Len(initLog) = 1
  /\ initLog[1].c = Null /\ initLog[1].l = "dark" /\ ~initLog[1].o
  /\ isDark /\ hasUserPref

\* C3: when the cookie holds light, dark or system, what a run of the
\* initialization effect sets depends on the cookie (and, for system, on the
\* OS signal) alone, whatever localStorage holds.
C3_CookieWins ==
  \A i \in DOMAIN initLog :
    LET r == initLog[i]
        c == getCookie(r.c)
    IN c \in {"light", "dark", "system"} =>
         /\ r.p = (c # "system")
         /\ r.d = (IF c = "system" THEN r.o ELSE c = "dark")

C3_Witness ==
  \E i \in DOMAIN initLog :
    /\ initLog[i].c = "light" /\ initLog[i].l = "dark" /\ initLog[i].o
    /\ ~initLog[i].d /\ initLog[i].p

\* C4 as stated: when a page load that ended explicit, after a toggle, is
\* followed by a reload that nothing disturbs, the reloaded page settles with
\* hasUserPref true and the isDark of before the reload.
C4_ReloadRoundTrip ==
  (carry.set /\ clean /\ Quiescent) => (hasUserPref /\ isDark = carry.d)

\* C5 as stated: once toggleTheme has been called in a page load, no change of
\* the OS signal alters isDark.
C5_ExplicitFreeze == [][(toggled /\ os' # os) => isDark' = isDark]_vars

\* C6: right after a toggleTheme call hasUserPref is true, isDark is the
\* opposite of what it was, no effect is pending, and the cookie and
\* localStorage both hold the value of the new isDark.
C6_ToggleSetsAndPersists ==
  togRun >= 1 =>
    LET before == IF togRun = 1 THEN togFrom ELSE togMid IN
      /\ hasUserPref
      /\ isDark = ~before.d
      /\ pending = {}
      /\ getCookie(cookie) = ThemeOf(isDark)
      /\ ls = ThemeOf(isDark)

\* one toggle from the adaptive state with the OS dark
C6_Witness ==
  /\ togRun = 1 /\ togFrom = [d |-> TRUE, p |-> FALSE] /\ os
  /\ ~isDark /\ hasUserPref /\ cookie = "light" /\ ls = "light"

TracksOS ==
  /\ isDark' = os'
  /\ ~hasUserPref'
  /\ getCookie(cookie') = "system"
  /\ ls' = Null
  /\ docDark' = os'

\* C8 as stated: while hasUserPref is false, every change of the OS signal
\* updates isDark to the new value and leaves system in the cookie, no theme
\* in localStorage and hasUserPref false.
C8_AdaptiveTrackingAlways ==
  [][(phase = "mounted" /\ ~hasUserPref /\ os' # os) => TracksOS]_vars

\* C8 amended: the same, while hasUserPref is false and the listener effect of
\* the committed render has run (it is not among the pending effects).
C8_AdaptiveTrackingOnceListening ==
  [][(phase = "mounted" /\ ~hasUserPref /\ "listen" \notin pending /\ os' # os)
       => TracksOS]_vars

\* the OS went from light to dark under a registered adaptive handler
C8_Witness ==
  /\ phase = "mounted" /\ didApply
  /\ ~hasUserPref /\ ~clean /\ listeners = <<FALSE>> /\ pending = {}
  /\ initLog # <<>> /\ ~LastInit.o
  /\ isDark /\ os /\ docDark /\ cookie = "system" /\ ls = Null

\* C9 as stated: once hasUserPref is committed true it stays true until the
\* page is reloaded.
C9_NoWayBack == [][hasUserPref => (hasUserPref' \/ "init" \in pending')]_vars

\* C10: after two toggleTheme calls in a row from an explicit state, the state
\* is the explicit state they started from, hasUserPref was true in between,
\* and the cookie and localStorage hold that state's value.
C10_DoubleToggle ==
  (togRun = 2 /\ togFrom.p) =>
    /\ togMid.p /\ hasUserPref
    /\ togMid.d = ~togFrom.d
    /\ isDark = togFrom.d
    /\ pending = {}
    /\ getCookie(cookie) = ThemeOf(togFrom.d)
    /\ ls = ThemeOf(togFrom.d)

C10_Witness ==
  /\ togRun = 2 /\ togFrom = [d |-> FALSE, p |-> TRUE] /\ togMid = [d |-> TRUE, p |-> TRUE]
  /\ ~isDark /\ hasUserPref /\ cookie = "light" /\ ls = "light"

\* A stored value that is no theme preference counts as absent.
Sanitized(v) == IF v \in {"light", "dark", "system"} THEN v ELSE Null

\* C11 as stated: a run of the initialization effect treats a malformed
\* cookie value, and a malformed localStorage value, as absent: it sets what
\* the resolution cookie > localStorage > OS gives for the sanitized values;
\* and with localStorage accessible no stored value makes the page abort.
C11_MalformedIsAbsent ==
  /\ \A i \in DOMAIN initLog :
       LET r == initLog[i]
           c == Sanitized(getCookie(r.c))
           resolved == IF c # Null THEN c ELSE Sanitized(r.l)
       IN IF Explicit(resolved)
          THEN r.d = (resolved = "dark") /\ r.p
          ELSE r.d = r.o /\ ~r.p
  /\ ~lsThrows => phase # "crashed"

\* C12 as stated: when the browser refuses access to localStorage (and the
\* cookie is decodable), no error state is reached and an undisturbed load
\* settles adaptive with isDark equal to the OS signal.
C12_AccessFailureIsAbsence ==
  (lsThrows /\ ~Undecodable(cookie)) =>
    /\ phase # "crashed"
    /\ (clean /\ Quiescent) => (~hasUserPref /\ isDark = os)

SameStores(a, b) == a.cookie = b.cookie /\ a.ls = b.ls /\ a.docDark = b.docDark

\* C13: from the storage and document of any reachable state, and for each of
\* the four (isDark, hasUserPref) combinations, a second run of the apply
\* effect leaves the cookie, localStorage and the dark flag as the first run
\* left them.
C13_ApplyIdempotent ==
  \A d \in BOOLEAN, p \in BOOLEAN :
    LET once == ApplyEffect(World, d, p) IN SameStores(ApplyEffect(once, d, p), once)

\* a StrictMode mount has just run the apply effect twice for the same render,
\* on a page that was loaded with a stored dark preference
C13_Witness ==
  /\ strict /\ clean /\ pending = {} /\ Len(initLog) = 2
  /\ initLog[1].c = "dark" /\ initLog[1].l = "dark"
  /\ SameStores(ApplyEffect(World, isDark, hasUserPref), World)

\* C17 as stated: a page load with a stored cookie of light or dark, with no
\* toggle and no OS change, settles with that value in the cookie and in
\* localStorage.
C17_LoadKeepsStoredPref ==
  (clean /\ Quiescent /\ initLog # <<>> /\ Explicit(getCookie(initLog[1].c)))
    => (cookie = initLog[1].c /\ ls = initLog[1].c)

\* C14: in a state reached by a step that ran the apply effect, with no apply
\* effect of a later render outstanding, the 'dark' class of the root element
\* equals isDark; and a step changes the class only if it runs the apply
\* effect (a page reload starts a new document, whose class list is empty).
C14_ClassFollowsIsDark ==
  /\ []((didApply /\ "apply" \notin pending) => docDark = isDark)
  /\ [][docDark' # docDark => (didApply' \/ "init" \in pending')]_vars

C14_Witness ==
  phase = "mounted" /\ didApply /\ "apply" \notin pending /\ docDark /\ isDark /\ toggled

\* C15 as stated: within one mount the change listener is installed once and
\* then left alone, and what gates a registered handler is always the current
\* hasUserPref.
C15_InstalledOnceLiveGate ==
  /\ ~strict => installs <= 1
  /\ \A i \in DOMAIN listeners : listeners[i] = hasUserPref

\* C15 amended: the listener effect depends on hasUserPref, so the handler is
\* removed and registered anew for each render that changes hasUserPref; the
\* gate of a handler is the hasUserPref of the render that registered it, and
\* once the listener effect of the committed render has run exactly one
\* handler is registered and its gate is the committed hasUserPref.
C15_ReinstalledPerPref ==
  /\ Len(listeners) <= 1
  /\ (phase = "mounted" /\ "listen" \notin pending) =>
       (listeners = <<hasUserPref>> /\ installs >= 1)

C15_Witness ==
  /\ phase = "mounted" /\ "listen" \notin pending
  /\ ~strict /\ installs = 2 /\ listeners = <<TRUE>> /\ hasUserPref

\* C16: at most one change handler is registered at any time, none is
\* registered once the view has been torn down, and an OS change after
\* teardown changes neither isDark nor the cookie nor localStorage.
C16_TeardownDeregisters ==
  /\ [](Len(listeners) <= 1 /\ (phase = "unmounted" => listeners = <<>>))
  /\ [][(phase = "unmounted" /\ os' # os) =>
          (isDark' = isDark /\ cookie' = cookie /\ ls' = ls)]_vars

\* A torn-down adaptive view that still shows dark under a light OS: while
\* mounted such a view is never dark under a light OS, so the OS changed
\* after the teardown.
C16_Witness ==
  /\ phase = "unmounted" /\ listeners = <<>> /\ installs >= 1
  /\ ~toggled /\ ~hasUserPref /\ isDark /\ ~os

\* C18: after an event that called toggleTheme n times (n >= 1) before React
\* rendered, the committed isDark is the isDark committed before the event
\* flipped n times, hasUserPref is true, no effect is left pending, and the
\* class, the cookie and localStorage all hold the committed isDark.
C18_BatchedTogglesAllCount ==
  batch.n >= 1 =>
    /\ hasUserPref
    /\ isDark = (IF batch.n % 2 = 0 THEN batch.d ELSE ~batch.d)
    /\ pending = {}
    /\ docDark = isDark
    /\ getCookie(cookie) = ThemeOf(isDark)
    /\ ls = ThemeOf(isDark)

C18_Witness ==
  /\ batch.n = 2 /\ batch.d /\ isDark /\ hasUserPref
  /\ ls = "dark" /\ getCookie(cookie) = "dark" /\ didApply

====
